---- MODULE Spec2Model ----
(***************************************************************************)
(* Model of the x402 network-identifier normaliser                         *)
(* (python/x402/src/x402/networks.py) and of the example FastAPI server's  *)
(* dynamic pricing middleware (examples/python/servers/fastapi/main.py).   *)
(*                                                                         *)
(* Python strings are modelled as sequences of one-character strings so    *)
(* that startswith(), int() and str() are computed character by character. *)
(***************************************************************************)
EXTENDS Integers, Sequences, FiniteSets, TLC

(* ------------------------------------------------------------------ *)
(* Bounds                                                              *)
(* ------------------------------------------------------------------ *)
\* number of characters that may be put before and after a core input
MaxPad == 1
\* number of concurrent callers of normalize_network
NumCallers == 2

Callers == 1..NumCallers

(* ------------------------------------------------------------------ *)
(* String literals                                                     *)
(* ------------------------------------------------------------------ *)
s_base == <<"b","a","s","e">>
s_base_sepolia == <<"b","a","s","e","-","s","e","p","o","l","i","a">>
s_avalanche_fuji == <<"a","v","a","l","a","n","c","h","e","-","f","u","j","i">>
s_avalanche == <<"a","v","a","l","a","n","c","h","e">>
s_eip155 == <<"e","i","p","1","5","5",":">>

\* Python's None
None == <<"<None>">>

(* ------------------------------------------------------------------ *)
(* Tables (module-level dicts)                                         *)
(* ------------------------------------------------------------------ *)
SupportedNetworks == {s_base, s_base_sepolia, s_avalanche_fuji, s_avalanche}

EVM_NETWORK_TO_CHAIN_ID ==
    (s_base_sepolia :> 84532) @@ (s_base :> 8453) @@
    (s_avalanche_fuji :> 43113) @@ (s_avalanche :> 43114)

\* variant: the base entry keyed by the base-sepolia chain ID's prefix
CAIP2_TO_NETWORK_stale ==
    ((s_eip155 \o <<"8","4","5","3","2">>) :> s_base_sepolia) @@
    ((s_eip155 \o <<"8","4","5","3","1">>) :> s_base) @@
    ((s_eip155 \o <<"4","3","1","1","3">>) :> s_avalanche_fuji) @@
    ((s_eip155 \o <<"4","3","1","1","4">>) :> s_avalanche)

CAIP2_TO_NETWORK ==
    ((s_eip155 \o <<"8","4","5","3","2">>) :> s_base_sepolia) @@
    ((s_eip155 \o <<"8","4","5","3">>) :> s_base) @@
    ((s_eip155 \o <<"4","3","1","1","3">>) :> s_avalanche_fuji) @@
    ((s_eip155 \o <<"4","3","1","1","4">>) :> s_avalanche)

\* variant: the two avalanche entries exchanged
CHAIN_ID_TO_NETWORK_swapped ==
    (84532 :> s_base_sepolia) @@ (8453 :> s_base) @@
    (43113 :> s_avalanche) @@ (43114 :> s_avalanche_fuji)

CHAIN_ID_TO_NETWORK ==
    (84532 :> s_base_sepolia) @@ (8453 :> s_base) @@
    (43113 :> s_avalanche_fuji) @@ (43114 :> s_avalanche)

\* variant: one name left out of the list
StandardNames_short == <<s_base, s_base_sepolia, s_avalanche>>

\* the list literal tested on the first line of normalize_network
StandardNames == <<s_base, s_base_sepolia, s_avalanche_fuji, s_avalanche>>

(* ------------------------------------------------------------------ *)
(* Python built-ins used by normalize_network                          *)
(* ------------------------------------------------------------------ *)
\* x in [list]
InList(x, l) == \E i \in 1..Len(l) : l[i] = x

\* str.startswith
startswith(s, p) == Len(s) >= Len(p) /\ SubSeq(s, 1, Len(p)) = p

\* dict.get(key): the value, or None when the key is absent
DictGet(d, k) == IF k \in DOMAIN d THEN d[k] ELSE None

\* variant: the result of the lookup is not tested
Truthy_always(v) == TRUE

\* truth value of a str-or-None
Truthy(v) == v # None /\ v # <<>>

\* decimal digits int() accepts: ASCII 0-9 and any Unicode Nd character,
\* of which FULLWIDTH DIGIT EIGHT (written "U+FF18") is the representative
DigitVal ==
    ("0" :> 0) @@ ("1" :> 1) @@ ("2" :> 2) @@ ("3" :> 3) @@ ("4" :> 4) @@
    ("5" :> 5) @@ ("6" :> 6) @@ ("7" :> 7) @@ ("8" :> 8) @@ ("9" :> 9) @@
    ("U+FF18" :> 8)

IsDigit(ch) == ch \in DOMAIN DigitVal
IsSpace(ch) == ch \in {" ", "\t", "\n"}

RECURSIVE LStrip(_)
LStrip(s) == IF s # <<>> /\ IsSpace(Head(s)) THEN LStrip(Tail(s)) ELSE s

RECURSIVE RStrip(_)
RStrip(s) ==
    IF s # <<>> /\ IsSpace(s[Len(s)]) THEN RStrip(SubSeq(s, 1, Len(s) - 1)) ELSE s

RECURSIVE DigitsValue(_, _)
DigitsValue(s, acc) ==
    IF s = <<>> THEN acc
    ELSE IF Head(s) = "_" THEN DigitsValue(Tail(s), acc)
    ELSE DigitsValue(Tail(s), acc * 10 + DigitVal[Head(s)])

\* digits with single underscores between digits only
ValidDigits(b) ==
    /\ Len(b) >= 1
    /\ \A i \in 1..Len(b) : IsDigit(b[i]) \/ b[i] = "_"
    /\ IsDigit(b[1]) /\ IsDigit(b[Len(b)])
    /\ \A i \in 1..(Len(b) - 1) : ~(b[i] = "_" /\ b[i + 1] = "_")

\* exception type raised by int() on a malformed literal
IntErrorType == "ValueError"

\* variant: the except clause catches nothing
ExceptClause_none(e) == FALSE

\* except ValueError
ExceptClause(e) == e.kind = "raise" /\ e.type = "ValueError"

\* int(s), base 10: surrounding whitespace stripped, optional sign, digits
IntParse(s) ==
    LET t == RStrip(LStrip(s))
        signed == t # <<>> /\ Head(t) \in {"+", "-"}
        b == IF signed THEN Tail(t) ELSE t
    IN  IF ValidDigits(b)
        THEN [ok |-> TRUE,
              val |-> IF signed /\ Head(t) = "-" THEN 0 - DigitsValue(b, 0)
                      ELSE DigitsValue(b, 0)]
        ELSE [ok |-> FALSE, val |-> 0]

\* str(n) for an int
RECURSIVE StrNat(_)
StrNat(n) ==
    LET d == CHOOSE ch \in {"0","1","2","3","4","5","6","7","8","9"} :
                 DigitVal[ch] = n % 10
    IN  IF n < 10 THEN <<d>> ELSE StrNat(n \div 10) \o <<d>>

Str(n) == IF n < 0 THEN <<"-">> \o StrNat(0 - n) ELSE StrNat(n)

(* ------------------------------------------------------------------ *)
(* Outcomes of a call                                                  *)
(* ------------------------------------------------------------------ *)
NoOutcome == [kind |-> "none", type |-> "", msg |-> "", value |-> None]
Returned(v) == [kind |-> "return", type |-> "", msg |-> "", value |-> v]
Raised(t, m) == [kind |-> "raise", type |-> t, msg |-> m, value |-> None]

MsgCaip2 == "Unsupported CAIP-2 network"
MsgChainId == "Unsupported chain ID"
MsgFormat == "Unsupported network format"
MsgIntLiteral == "invalid literal for int() with base 10"

(* ------------------------------------------------------------------ *)
(* Inputs                                                              *)
(* ------------------------------------------------------------------ *)
Cores ==
    { s_base, s_base_sepolia, s_avalanche_fuji, s_avalanche,
      s_eip155 \o <<"8","4","5","3","2">>, s_eip155 \o <<"8","4","5","3">>,
      s_eip155 \o <<"4","3","1","1","3">>, s_eip155 \o <<"4","3","1","1","4">>,
      <<"8","4","5","3","2">>, <<"8","4","5","3">>,
      <<"4","3","1","1","3">>, <<"4","3","1","1","4">>,
      <<"9","9","9","9","9","9">>, <<"1">>, <<>>,
      <<"n","o","t","-","a","-","n","e","t","w","o","r","k">>,
      <<"B","a","s","e">>, <<"b","a","s">>,
      s_eip155 \o <<"9","9","9","9","9","9">>, s_eip155 \o <<"1">>, s_eip155,
      s_eip155 \o s_base,
      <<"E","I","P","1","5","5",":","8","4","5","3">>,
      <<"8","_","4","5","3">>, <<"8","_","_","4","5","3">>,
      <<"U+FF18","4","5","3">>, <<"8","4","5","3",".","0">>,
      <<"0","x","2","1","0","5">> }

PadChars == {" ", "\n", "+", "-", "0", "_"}

RECURSIVE Pads(_)
Pads(n) ==
    IF n = 0 THEN {<<>>}
    ELSE Pads(n - 1) \cup {p \o <<ch>> : p \in Pads(n - 1), ch \in PadChars}

\* characters put after a core input
TailChars == {" ", "\n", "0"}

RECURSIVE Tails(_)
Tails(n) ==
    IF n = 0 THEN {<<>>}
    ELSE Tails(n - 1) \cup {p \o <<ch>> : p \in Tails(n - 1), ch \in TailChars}

Inputs == {p \o c \o q : p \in Pads(MaxPad), c \in Cores, q \in Tails(MaxPad)}

\* inputs of the concurrent callers
ConcInputs ==
    { s_base, s_eip155 \o <<"8","4","5","3">>, <<"8","4","5","3">>,
      <<" ","8","4","5","3">>, <<"9","9","9","9","9","9">>,
      s_eip155 \o <<"1">>, <<>>, <<"B","a","s","e">> }

(* ------------------------------------------------------------------ *)
(* Example server: requests                                            *)
(* ------------------------------------------------------------------ *)
s_acp_budget == <<"/","a","c","p","-","b","u","d","g","e","t">>

PathCores ==
    { <<"/">>, s_acp_budget, <<"/","a","c","p","-","b","u","d","g","e">>,
      <<"/","A","C","P","-","B","U","D","G","E","T">>,
      <<"/","x">> \o s_acp_budget,
      <<"/","f","a","v","i","c","o","n",".","i","c","o">> }

PathChars == {"/", "x"}

RECURSIVE PathTails(_)
PathTails(n) ==
    IF n = 0 THEN {<<>>}
    ELSE PathTails(n - 1) \cup
         {p \o <<ch>> : p \in PathTails(n - 1), ch \in PathChars}

Paths == {c \o q : c \in PathCores, q \in PathTails(MaxPad)}

Methods == {"GET", "POST", "DELETE"}

BudgetValues == {"$0.001", "$0.01", "$0.05", ""}

\* request headers: the X-Budget header is absent or carries one value
HeaderSets ==
    {<<>>} \cup {("x-budget" :> v) : v \in BudgetValues}

\* variant: only the exact path is charged
IsBudgetPath_exact(path) == path = s_acp_budget

\* request.url.path.startswith("/acp-budget")
IsBudgetPath(path) == startswith(path, s_acp_budget)

\* headers.get(key, default)
HeadersGet(h, k, default) == IF k \in DOMAIN h THEN h[k] ELSE default

DefaultBudget == "$0.001"
NoPrice == "<no payment requirement>"

NoRequest == [path |-> <<>>, method |-> "", headers |-> <<>>]

(* ------------------------------------------------------------------ *)
(* State                                                               *)
(* ------------------------------------------------------------------ *)
VARIABLES
    tables,     \* the three module-level dicts
    pc,         \* per caller: position in normalize_network
    network,    \* per caller: the argument
    outcome,    \* per caller: what the call returned or raised
    lookups,    \* per caller: table lookups attempted so far
    caught,     \* per caller: exceptions swallowed by the except clause
    request,    \* server: the request being processed
    spc,        \* server: position of the request in the middleware stack
    price,      \* server: price of the require_payment middleware built
    routed,     \* server: how dynamic_price_middleware dispatched the request
    called_next,\* server: call_next(request) has been invoked
    status      \* server: HTTP status of the response

nvars == <<tables, pc, network, outcome, lookups, caught>>
svars == <<request, spc, price, routed, called_next, status>>
vars == <<tables, pc, network, outcome, lookups, caught,
          request, spc, price, routed, called_next, status>>

InitTables ==
    [evm |-> EVM_NETWORK_TO_CHAIN_ID,
     caip2 |-> CAIP2_TO_NETWORK,
     chain |-> CHAIN_ID_TO_NETWORK]

Init ==
    /\ tables = InitTables
    /\ pc = [c \in Callers |-> "idle"]
    /\ network = [c \in Callers |-> <<>>]
    /\ outcome = [c \in Callers |-> NoOutcome]
    /\ lookups = [c \in Callers |-> <<>>]
    /\ caught = [c \in Callers |-> <<>>]
    /\ request = NoRequest
    /\ spc = "idle"
    /\ price = NoPrice
    /\ routed = "none"
    /\ called_next = FALSE
    /\ status = 0

(* ------------------------------------------------------------------ *)
(* normalize_network, statement by statement                           *)
(* ------------------------------------------------------------------ *)
Finish(c, o) ==
    /\ outcome' = [outcome EXCEPT ![c] = o]
    /\ pc' = [pc EXCEPT ![c] = "done"]

\* a caller invokes normalize_network(s)
Call(c, s) ==
    /\ pc[c] = "idle"
    /\ pc' = [pc EXCEPT ![c] = "standard"]
    /\ network' = [network EXCEPT ![c] = s]
    /\ UNCHANGED <<tables, outcome, lookups, caught>>
    /\ UNCHANGED svars

\* if network in [...]: return network
CheckStandard(c) ==
    /\ pc[c] = "standard"
    /\ IF InList(network[c], StandardNames)
       THEN Finish(c, Returned(network[c]))
       ELSE /\ pc' = [pc EXCEPT ![c] = "caip2"]
            /\ UNCHANGED outcome
    /\ UNCHANGED <<tables, network, lookups, caught>>
    /\ UNCHANGED svars

\* variant: a miss in the CAIP-2 table falls through to the chain-ID parse
CheckCaip2_fallthrough(c) ==
    /\ pc[c] = "caip2"
    /\ IF startswith(network[c], s_eip155)
       THEN LET normalized == DictGet(tables.caip2, network[c])
            IN  /\ lookups' = [lookups EXCEPT ![c] = Append(@, "caip2")]
                /\ IF Truthy(normalized)
                   THEN Finish(c, Returned(normalized))
                   ELSE /\ pc' = [pc EXCEPT ![c] = "chainid"]
                        /\ UNCHANGED outcome
       ELSE /\ pc' = [pc EXCEPT ![c] = "chainid"]
            /\ UNCHANGED <<outcome, lookups>>
    /\ UNCHANGED <<tables, network, caught>>
    /\ UNCHANGED svars

\* if network.startswith("eip155:"): ...
CheckCaip2(c) ==
    /\ pc[c] = "caip2"
    /\ IF startswith(network[c], s_eip155)
       THEN LET normalized == DictGet(tables.caip2, network[c])
            IN  /\ lookups' = [lookups EXCEPT ![c] = Append(@, "caip2")]
                /\ IF Truthy(normalized)
                   THEN Finish(c, Returned(normalized))
                   ELSE Finish(c, Raised("ValueError", MsgCaip2))
       ELSE /\ pc' = [pc EXCEPT ![c] = "chainid"]
            /\ UNCHANGED <<outcome, lookups>>
    /\ UNCHANGED <<tables, network, caught>>
    /\ UNCHANGED svars

\* try: chain_id = int(network) ... except ValueError: pass
TryChainIdBody(c) ==
    /\ pc[c] = "chainid"
    /\ LET parsed == IntParse(network[c])
           normalized == DictGet(tables.chain, parsed.val)
           \* what the body of the try statement does
           body ==
               IF ~parsed.ok THEN Raised(IntErrorType, MsgIntLiteral)
               ELSE IF Truthy(normalized) THEN Returned(normalized)
               ELSE Raised("ValueError", MsgChainId)
       IN  /\ lookups' = [lookups EXCEPT ![c] =
                              IF parsed.ok THEN Append(@, "chain") ELSE @]
           /\ IF ExceptClause(body)
              THEN \* pass
                   /\ caught' = [caught EXCEPT ![c] = Append(@, body.msg)]
                   /\ pc' = [pc EXCEPT ![c] = "format"]
                   /\ UNCHANGED outcome
              ELSE /\ Finish(c, body)
                   /\ UNCHANGED caught
    /\ UNCHANGED network
    /\ UNCHANGED svars

\* variant: a chain ID that parses is remembered in the shared table
TryChainId_memo(c) ==
    /\ TryChainIdBody(c)
    /\ LET parsed == IntParse(network[c])
       IN  tables' = IF parsed.ok
                     THEN [tables EXCEPT !.chain = (parsed.val :> s_base) @@ @]
                     ELSE tables

TryChainId(c) ==
    /\ TryChainIdBody(c)
    /\ UNCHANGED tables

\* raise ValueError(f"Unsupported network format: {network}")
RaiseFormat(c) ==
    /\ pc[c] = "format"
    /\ Finish(c, Raised("ValueError", MsgFormat))
    /\ UNCHANGED <<tables, network, lookups, caught>>
    /\ UNCHANGED svars

\* the caller takes the result; the frame's locals are gone
Resume(c) ==
    /\ pc[c] = "done"
    /\ pc' = [pc EXCEPT ![c] = "idle"]
    /\ network' = [network EXCEPT ![c] = <<>>]
    /\ outcome' = [outcome EXCEPT ![c] = NoOutcome]
    /\ lookups' = [lookups EXCEPT ![c] = <<>>]
    /\ caught' = [caught EXCEPT ![c] = <<>>]
    /\ UNCHANGED tables
    /\ UNCHANGED svars

\* one caller, every input
Next ==
    \/ pc[1] = "idle" /\ \E s \in Inputs : Call(1, s)
    \/ CheckStandard(1)
    \/ CheckCaip2(1)
    \/ TryChainId(1)
    \/ RaiseFormat(1)
    \/ Resume(1)

Spec == Init /\ [][Next]_vars

\* several callers interleaved statement by statement
NextConc ==
    \E c \in Callers :
        \/ pc[c] = "idle" /\ \E s \in ConcInputs : Call(c, s)
        \/ CheckStandard(c)
        \/ CheckCaip2(c)
        \/ TryChainId(c)
        \/ RaiseFormat(c)
        \/ Resume(c)

SpecConc == Init /\ [][NextConc]_vars

(* ------------------------------------------------------------------ *)
(* Example server: dynamic_price_middleware                            *)
(* ------------------------------------------------------------------ *)
\* a request enters the middleware stack
Receive(p, m, h) ==
    /\ spc = "idle"
    /\ request' = [path |-> p, method |-> m, headers |-> h]
    /\ spc' = "middleware"
    /\ UNCHANGED <<price, routed, called_next, status>>
    /\ UNCHANGED nvars

\* dynamic_price_middleware up to its await
dynamic_price_middleware ==
    /\ spc = "middleware"
    /\ IF ~IsBudgetPath(request.path)
       THEN \* return await call_next(request)
            /\ routed' = "direct"
            /\ called_next' = TRUE
            /\ spc' = "handler"
            /\ UNCHANGED price
       ELSE LET budget == HeadersGet(request.headers, "x-budget", DefaultBudget)
            IN  \* payment_middleware = require_payment(price=budget, ...)
                /\ price' = budget
                /\ routed' = "payment"
                /\ spc' = "payment"
                /\ UNCHANGED called_next
    /\ UNCHANGED <<request, status>>
    /\ UNCHANGED nvars

\* await payment_middleware(request, call_next): the middleware either
\* answers by itself (402) or lets the request through to call_next
payment_middleware ==
    /\ spc = "payment"
    /\ \/ /\ status' = 402
          /\ spc' = "respond"
          /\ UNCHANGED called_next
       \/ /\ called_next' = TRUE
          /\ spc' = "handler"
          /\ UNCHANGED status
    /\ UNCHANGED <<request, price, routed>>
    /\ UNCHANGED nvars

\* call_next: the router picks the endpoint
call_next ==
    /\ spc = "handler"
    /\ status' =
         IF request.path = s_acp_budget
         THEN (IF request.method \in {"GET", "POST"} THEN 200 ELSE 405)
         ELSE IF request.path = <<"/">>
         THEN (IF request.method = "GET" THEN 200 ELSE 405)
         ELSE 404
    /\ spc' = "respond"
    /\ UNCHANGED <<request, price, routed, called_next>>
    /\ UNCHANGED nvars

\* the response is sent
Respond ==
    /\ spc = "respond"
    /\ spc' = "idle"
    /\ request' = NoRequest
    /\ price' = NoPrice
    /\ routed' = "none"
    /\ called_next' = FALSE
    /\ status' = 0
    /\ UNCHANGED nvars

NextServer ==
    \/ spc = "idle" /\ \E p \in Paths, m \in Methods, h \in HeaderSets :
                           Receive(p, m, h)
    \/ dynamic_price_middleware
    \/ payment_middleware
    \/ call_next
    \/ Respond

SpecServer == Init /\ [][NextServer]_vars

(* ------------------------------------------------------------------ *)
(* Properties                                                          *)
(* ------------------------------------------------------------------ *)
s_999999 == <<"9","9","9","9","9","9">>
s_not_a_network == <<"n","o","t","-","a","-","n","e","t","w","o","r","k">>

ChainIds == {EVM_NETWORK_TO_CHAIN_ID[n] : n \in DOMAIN EVM_NETWORK_TO_CHAIN_ID}

\* C1: every input that parses as a base-10 integer which is not a supported
\* chain ID fails with a ValueError whose reason is "Unsupported chain ID".
C1_UnsupportedChainIdReason ==
    \A c \in Callers :
        (/\ pc[c] = "done"
         /\ IntParse(network[c]).ok
         /\ IntParse(network[c]).val \notin ChainIds)
        => outcome[c] = Raised("ValueError", MsgChainId)

\* C2: a call succeeds only on exactly a canonical name, exactly a CAIP-2
\* key, or exactly str(c) of a supported chain ID c.
C2_ExactMatchOnly ==
    \A c \in Callers :
        (pc[c] = "done" /\ outcome[c].kind = "return")
        => \/ network[c] \in SupportedNetworks
           \/ network[c] \in DOMAIN CAIP2_TO_NETWORK
           \/ \E id \in ChainIds : network[c] = Str(id)

\* C3: for each canonical name n with chain ID c, "eip155:" + str(c) and
\* str(c) both normalise to n.
C3_ThreeRepresentations ==
    \A c \in Callers :
        pc[c] = "done" =>
            \A n \in DOMAIN EVM_NETWORK_TO_CHAIN_ID :
                (\/ network[c] = s_eip155 \o Str(EVM_NETWORK_TO_CHAIN_ID[n])
                 \/ network[c] = Str(EVM_NETWORK_TO_CHAIN_ID[n]))
                => outcome[c] = Returned(n)

C3_Witness ==
    /\ pc[1] = "done"
    /\ network[1] = Str(EVM_NETWORK_TO_CHAIN_ID[s_avalanche])
    /\ outcome[1] = Returned(s_avalanche)

\* C4: a canonical name is returned unchanged, before any CAIP-2 or chain-ID
\* lookup has been attempted.
C4_IdentityFirst ==
    \A c \in Callers :
        (pc[c] = "done" /\ network[c] \in SupportedNetworks)
        => /\ outcome[c] = Returned(network[c])
           /\ lookups[c] = <<>>
           /\ caught[c] = <<>>

C4_Witness ==
    /\ pc[1] = "done"
    /\ network[1] = s_avalanche_fuji
    /\ outcome[1] = Returned(s_avalanche_fuji)

\* C5: an input with the "eip155:" prefix that is not a key of the CAIP-2
\* table fails with "Unsupported CAIP-2 network" and never reaches the
\* chain-ID parse or the generic failure.
C5_Caip2Miss ==
    \A c \in Callers :
        /\ (/\ pc[c] = "done"
            /\ startswith(network[c], s_eip155)
            /\ network[c] \notin DOMAIN CAIP2_TO_NETWORK)
           => /\ outcome[c] = Raised("ValueError", MsgCaip2)
              /\ lookups[c] = <<"caip2">>
              /\ caught[c] = <<>>
        /\ (startswith(network[c], s_eip155)
            /\ network[c] \notin DOMAIN CAIP2_TO_NETWORK)
           => pc[c] \notin {"chainid", "format"}

C5_Witness ==
    /\ pc[1] = "done"
    /\ network[1] = s_eip155 \o s_999999
    /\ outcome[1] = Raised("ValueError", MsgCaip2)

\* C6: an input that is no canonical name, has no "eip155:" prefix and does
\* not parse as an integer fails with "Unsupported network format"; the
\* int() failure is swallowed inside the call.
C6_GenericFormat ==
    \A c \in Callers :
        (/\ pc[c] = "done"
         /\ network[c] \notin SupportedNetworks
         /\ ~startswith(network[c], s_eip155)
         /\ ~IntParse(network[c]).ok)
        => /\ outcome[c] = Raised("ValueError", MsgFormat)
           /\ caught[c] = <<MsgIntLiteral>>

C6_Witness ==
    /\ pc[1] = "done"
    /\ network[1] \in {<<>>, s_not_a_network}
    /\ outcome[1] = Raised("ValueError", MsgFormat)
    /\ caught[1] = <<MsgIntLiteral>>

\* C7: a finished call has either returned one of the four canonical names
\* or raised ValueError; a started call can always take its next step.
C7_TwoOutcomes ==
    \A c \in Callers :
        /\ pc[c] = "done" =>
               \/ /\ outcome[c].kind = "return"
                  /\ outcome[c].value \in SupportedNetworks
               \/ /\ outcome[c].kind = "raise"
                  /\ outcome[c].type = "ValueError"
        /\ pc[c] \in {"standard", "caip2", "chainid", "format"} =>
               ENABLED (\/ CheckStandard(c) \/ CheckCaip2(c)
                        \/ TryChainId(c) \/ RaiseFormat(c))

C7_Witness ==
    /\ pc[1] = "done"
    /\ outcome[1].kind = "raise"
    /\ network[1] = s_999999

\* C8: the name table is a bijection between the canonical names and their
\* chain IDs, the chain-ID table is its inverse, the CAIP-2 table maps
\* "eip155:<c>" to n exactly when the name table maps n to c, and the name
\* table's keys are the names tested by normalize_network.
C8_TablesConsistent ==
    LET evm == tables.evm
        ids == {evm[n] : n \in DOMAIN evm}
    IN  /\ DOMAIN evm = SupportedNetworks
        /\ DOMAIN evm = {StandardNames[i] : i \in 1..Len(StandardNames)}
        /\ Cardinality(DOMAIN evm) = 4
        /\ \A n, m \in DOMAIN evm : evm[n] = evm[m] => n = m
        /\ DOMAIN tables.chain = ids
        /\ \A n \in DOMAIN evm : tables.chain[evm[n]] = n
        /\ DOMAIN tables.caip2 = {s_eip155 \o Str(id) : id \in ids}
        /\ \A n \in DOMAIN evm : tables.caip2[s_eip155 \o Str(evm[n])] = n

C8_Witness ==
    /\ pc[1] = "done"
    /\ lookups[1] = <<"caip2">>
    /\ outcome[1] = Returned(s_base)

\* C9: whatever the interleaving of calls, the three tables keep their
\* initial contents and two finished calls with the same input have the same
\* outcome.
C9_PureUnderConcurrency ==
    /\ tables = InitTables
    /\ \A c, d \in Callers :
           (pc[c] = "done" /\ pc[d] = "done" /\ network[c] = network[d])
           => outcome[c] = outcome[d]

C9_Witness ==
    /\ pc[1] = "done" /\ pc[2] = "done"
    /\ network[1] = s_999999 /\ network[2] = s_999999
    /\ outcome[1].kind = "raise"

\* C10: once dynamic_price_middleware has dispatched a request, the request
\* went through a require_payment middleware if and only if its path starts
\* with "/acp-budget"; that middleware's price is the X-Budget header value,
\* or "$0.001" without the header, and it is built before call_next runs;
\* any other request went straight to call_next with no payment requirement.
C10_BudgetPathsCharged ==
    spc \in {"payment", "handler", "respond"} =>
        /\ routed \in {"payment", "direct"}
        /\ routed = "payment" <=> startswith(request.path, s_acp_budget)
        /\ routed = "payment" =>
               /\ price = IF "x-budget" \in DOMAIN request.headers
                          THEN request.headers["x-budget"]
                          ELSE "$0.001"
               /\ spc = "payment" => ~called_next
        /\ routed = "direct" => price = NoPrice /\ called_next

C10_Witness ==
    /\ spc = "handler"
    /\ request.path = s_acp_budget \o <<"/">>
    /\ routed = "payment"
    /\ price = "$0.01"
    /\ called_next

====
